---- MODULE Spec2Model ----
(***************************************************************************)
(* coreleak.py: classification of the blocks of a memory snapshot.         *)
(*                                                                         *)
(* A session (CoreLeak) owns a list of Block objects.  analyze() derives   *)
(* the reference edges of every block and then runs a series of list       *)
(* comprehensions, each of which calls get_status() on every block in      *)
(* list order; get_status() resolves a block's status by recursion over    *)
(* the blocks that reference it.                                           *)
(*                                                                         *)
(* A block is named by its position in self.blocks.  The recursion of      *)
(* get_status is modelled with an explicit call stack that holds one       *)
(* frame per get_status body that is executing line 45.                    *)
(* analyze() is modelled as called with its default, dump=False.           *)
(***************************************************************************)
EXTENDS Integers, Sequences, FiniteSets, TLC

\* ------------------------------------------------------------ constants

STATUS_UNKNOWN == 0
STATUS_INDIRECTLY_LOST == 1
STATUS_DIRECTLY_LOST == 2
STATUS_INDIRECTLY_REACHABLE == 3
STATUS_DIRECTLY_REACHABLE == 4
STATUS_ROOT == 5

\* array.array('L', data).itemsize; the sessions of interest use 4-byte words.
ItemSize == 4

\* ------------------------------------------------------------ bounds

\* Number of blocks of a session of the general specification.
NumBlocks == 2
\* Largest number of words in one block of the general specification.
MaxWords == 2
\* Number of blocks of a session whose blocks may share addresses.
NumBlocksAddresses == 2
\* Largest number of words in one block of such a session.
MaxWordsAddresses == 1
\* Number of blocks of a session of the reordering specification.
NumBlocksOrders == 4
\* Largest number of words in one block of the reordering specification.
MaxWordsOrders == 1
\* The interpreter's recursion limit (sys.getrecursionlimit()), counted in
\* get_status bodies.  A get_status body that would be entered beyond this
\* depth raises RecursionError.
MaxDepth == 7

\* ------------------------------------------------------------ state

VARIABLES
    input,   \* the block records the collector supplied, in list order
    blocks,  \* self.blocks: sequence of Block objects
    stack,   \* call stack of get_status bodies at line 45
    pc,      \* position of analyze()
    idx,     \* position of the running list comprehension in self.blocks
    sel,     \* the list the running comprehension has built so far
    out,     \* what analyze() has printed
    first,   \* per block: value its first top-level get_status() returned
    last,    \* per block: value its latest top-level get_status() returned
    prev     \* statuses (by address) at the end of an earlier analysis

vars == <<input, blocks, stack, pc, idx, sel, out, first, last, prev>>

\* "no value": a get_status() that has not returned, max() before any item
NoValue == -1

N == Len(blocks)

Max(a, b) == IF a >= b THEN a ELSE b

Range(s) == {s[i] : i \in 1..Len(s)}

\* ------------------------------------------------------------ Block

\* Block.__init__: the word view is given directly; size is derived.
Block(addr, data, status) ==
    [addr |-> addr, data |-> data, size |-> Len(data) * ItemSize,
     status |-> status, references |-> <<>>]

\* The sequences over S of length at most n whose items strictly increase.
\* Only membership (line 75) and length (line 28) of a word view are read,
\* so one representative per set of words and per length is enough.
IncreasingSeqs(S, n) ==
    {s \in UNION {[1..k -> S] : k \in 0..n} :
        \A i \in 1..(Len(s) - 1) : s[i] < s[i + 1]}

\* The sessions of n blocks at addresses 1..n whose words are drawn from W,
\* at most w words per block, any subset of the blocks being roots.
Sessions(n, w, W) ==
    {[i \in 1..n |-> Block(i, d[i], r[i])] :
        d \in [1..n -> IncreasingSeqs(W, w)],
        r \in [1..n -> {STATUS_UNKNOWN, STATUS_ROOT}]}

\* ------------------------------------------------------------ get_status

\* Line 36 without the test of self.status: nothing is memoized.
ReturnsAtOnce_NoMemo(b, lookup) == lookup = b

\* Line 36: the call returns self.status at once.
ReturnsAtOnce(b, lookup) ==
    blocks[b].status # STATUS_UNKNOWN \/ lookup = b

\* Lines 46-49 without the Unknown case of lines 46-47.
Resolved_AlwaysDecrement(refstatus) == refstatus - 1

\* Lines 46-49 without the step down of line 49.
Resolved_NoStep(refstatus) == refstatus

\* Lines 46-49: the status assigned from the maximum over the referencers.
Resolved(refstatus) ==
    IF refstatus = STATUS_UNKNOWN THEN refstatus ELSE refstatus - 1

\* Lines 36-43 returning the status read before line 43 assigned it.
CallValue_Stale(b, lookup) == blocks[b].status

\* Lines 36-43 with line 43 assigning the indirect status.
CallBlocks_LeafIndirect(b, lookup) ==
    IF ReturnsAtOnce(b, lookup) THEN blocks
    ELSE [blocks EXCEPT ![b].status = STATUS_INDIRECTLY_LOST]

\* Lines 36-43 of a call b.get_status(lookup) that does not reach line 45:
\* the value returned ...
CallValue(b, lookup) ==
    IF ReturnsAtOnce(b, lookup) THEN blocks[b].status ELSE STATUS_DIRECTLY_LOST

\* ... and the blocks after it.
CallBlocks(b, lookup) ==
    IF ReturnsAtOnce(b, lookup) THEN blocks
    ELSE [blocks EXCEPT ![b].status = STATUS_DIRECTLY_LOST]

\* The call reaches line 45: it scans self.references.
ReachesScan(b, lookup) ==
    ~ReturnsAtOnce(b, lookup) /\ blocks[b].references # <<>>

\* Lines 39-40 and the start of line 45.  lookup = 0 stands for None.
NewFrame(b, lookup) ==
    [self |-> b, lookup |-> IF lookup = 0 THEN b ELSE lookup,
     i |-> 1, best |-> NoValue]

\* The caller's frame after the generator of line 45 yielded v.
Yielded(f, v) == [f EXCEPT !.i = f.i + 1, !.best = Max(f.best, v)]


\* ------------------------------------------------------------ analyze

\* Line 75 leaving out the block itself.
References_OtherBlocks(i) ==
    SelectSeq([k \in 1..N |-> k],
              LAMBDA b : b # i /\ blocks[i].addr \in Range(blocks[b].data))

\* Line 75: the blocks, in list order, whose words contain block i's address.
References(i) ==
    SelectSeq([k \in 1..N |-> k],
              LAMBDA b : blocks[i].addr \in Range(blocks[b].data))

\* The conditions with line 78 also leaving out the Unknown blocks.
Keeps_SkipUnknown(p, v) ==
    CASE p = "l78" -> v # STATUS_ROOT /\ v # STATUS_UNKNOWN
      [] p \in {"l85", "l119"} -> v = STATUS_DIRECTLY_LOST
      [] p \in {"l101", "l123"} -> v = STATUS_INDIRECTLY_LOST
      [] p = "l128" -> v = STATUS_INDIRECTLY_REACHABLE
      [] p = "l129" -> v = STATUS_DIRECTLY_REACHABLE

\* The condition of the list comprehension at position p (lines 78, 85, 101,
\* 119, 123, 128, 129) on the value v that get_status() returned.
Keeps(p, v) ==
    CASE p = "l78" -> v # STATUS_ROOT
      [] p \in {"l85", "l119"} -> v = STATUS_DIRECTLY_LOST
      [] p \in {"l101", "l123"} -> v = STATUS_INDIRECTLY_LOST
      [] p = "l128" -> v = STATUS_INDIRECTLY_REACHABLE
      [] p = "l129" -> v = STATUS_DIRECTLY_REACHABLE

\* Lines 128-129 without the second operand of "or".
SecondOperand_Never(p, v) == FALSE

\* Line 128-129: "a or b" evaluates b only when a is false.
SecondOperand(p, v) == p = "l128" /\ v # STATUS_INDIRECTLY_REACHABLE

\* A top-level get_status() of block idx returned v to the comprehension.
TopReturn(v) ==
    /\ sel' = IF Keeps(pc, v) THEN Append(sel, idx) ELSE sel
    /\ pc' = IF SecondOperand(pc, v) THEN "l129"
             ELSE IF pc = "l129" THEN "l128" ELSE pc
    /\ idx' = IF SecondOperand(pc, v) THEN idx ELSE idx + 1
    /\ first' = IF first[idx] = NoValue THEN [first EXCEPT ![idx] = v] ELSE first
    /\ last' = [last EXCEPT ![idx] = v]

RECURSIVE SumSizes(_)
\* sum([b.size for b in blocks])
SumSizes(s) ==
    IF s = <<>> THEN 0 ELSE blocks[Head(s)].size + SumSizes(Tail(s))

RECURSIVE Ascending(_)
\* The members of a finite set of integers, smallest first.
Ascending(S) ==
    IF S = {} THEN <<>>
    ELSE LET m == CHOOSE x \in S : \A y \in S : x <= y
         IN  <<m>> \o Ascending(S \ {m})

Line(label, bytes, count, size) ==
    [label |-> label, bytes |-> bytes, blocks |-> count, size |-> size]

Text(label) == Line(label, 0, 0, 0)

\* Lines 86-99 and 102-115 with dump=False: one line per size, sizes
\* ascending, then an empty line when any block was selected.
GroupLines(s, label) ==
    LET sizes == Ascending({blocks[b].size : b \in Range(s)})
        group(z) == SelectSeq(s, LAMBDA b : blocks[b].size = z)
    IN  [k \in 1..Len(sizes) |->
            Line(label, SumSizes(group(sizes[k])), Len(group(sizes[k])), sizes[k])]
        \o (IF s # <<>> THEN <<Text("")>> ELSE <<>>)

\* What analyze() prints once the comprehension at position p has built s.
Printed(p, s) ==
    CASE p = "l78" ->
            <<Line("in use at exit", SumSizes(s), Len(s), 0), Text("")>>
      [] p = "l85" -> GroupLines(s, "are definitely lost")
      [] p = "l101" ->
            GroupLines(s, "are definitely lost (indirectly)")
            \o <<Text("LEAK SUMMARY:")>>
      [] p = "l119" -> <<Line("definitely lost", SumSizes(s), Len(s), 0)>>
      [] p = "l123" -> <<Line("indirectly lost", SumSizes(s), Len(s), 0)>>
      [] p = "l128" -> <<Line("still reachable", SumSizes(s), Len(s), 0)>>

\* The statement after the comprehension at position p.
After(p) ==
    CASE p = "l78" -> "l85"
      [] p = "l85" -> "l101"
      [] p = "l101" -> "l119"
      [] p = "l119" -> "l123"
      [] p = "l123" -> "l128"
      [] p = "l128" -> "done"

Comprehensions == {"l78", "l85", "l101", "l119", "l123", "l128", "l129"}

\* Lines 74-77: analyze() sets every block's references and prints the title.
AnalyzeStart ==
    /\ pc = "new"
    /\ blocks' = [i \in 1..N |-> [blocks[i] EXCEPT !.references = References(i)]]
    /\ out' = Append(out, Text("HEAP SUMMARY:"))
    /\ pc' = "l78"
    /\ idx' = 1
    /\ sel' = <<>>
    /\ UNCHANGED <<input, stack, first, last, prev>>

\* One item of a list comprehension: b.get_status() on the next block.
AnalyzeQuery ==
    /\ pc \in Comprehensions
    /\ stack = <<>>
    /\ idx <= N
    /\ IF ReachesScan(idx, 0)
       THEN /\ stack' = <<NewFrame(idx, 0)>>
            /\ UNCHANGED <<blocks, pc, idx, sel, first, last>>
       ELSE /\ blocks' = CallBlocks(idx, 0)
            /\ TopReturn(CallValue(idx, 0))
            /\ UNCHANGED stack
    /\ UNCHANGED <<input, out, prev>>

\* The end of a list comprehension and the prints that follow it.
AnalyzeEmit ==
    /\ pc \in Comprehensions
    /\ stack = <<>>
    /\ idx = N + 1
    /\ out' = out \o Printed(pc, sel)
    /\ pc' = After(pc)
    /\ idx' = 1
    /\ sel' = <<>>
    /\ UNCHANGED <<input, blocks, stack, first, last, prev>>

\* Line 45: the generator calls s.get_status(lookup) on the next referencer.
\* A call that would nest deeper than the recursion limit raises
\* RecursionError, which no frame catches: analyze() ends with it.
GetStatusCall ==
    /\ stack # <<>>
    /\ LET d == Len(stack)
           f == stack[d]
           refs == blocks[f.self].references
       IN  /\ f.i <= Len(refs)
           /\ LET s == refs[f.i]
              IN  IF ~ReachesScan(s, f.lookup)
                  THEN /\ blocks' = CallBlocks(s, f.lookup)
                       /\ stack' = [stack EXCEPT ![d] = Yielded(f, CallValue(s, f.lookup))]
                       /\ UNCHANGED pc
                  ELSE IF d >= MaxDepth
                  THEN /\ pc' = "RecursionError"
                       /\ stack' = <<>>
                       /\ UNCHANGED blocks
                  ELSE /\ stack' = Append(stack, NewFrame(s, f.lookup))
                       /\ UNCHANGED <<blocks, pc>>
    /\ UNCHANGED <<input, idx, sel, out, first, last, prev>>

\* Lines 45-51: max() is complete; the body assigns self.status and returns
\* it, to the calling body's generator or to analyze().
GetStatusReturn ==
    /\ stack # <<>>
    /\ LET d == Len(stack)
           f == stack[d]
           v == Resolved(f.best)
       IN  /\ f.i > Len(blocks[f.self].references)
           /\ blocks' = [blocks EXCEPT ![f.self].status = v]
           /\ IF d = 1
              THEN /\ stack' = <<>>
                   /\ TopReturn(v)
              ELSE /\ stack' = [SubSeq(stack, 1, d - 1) EXCEPT
                                   ![d - 1] = Yielded(stack[d - 1], v)]
                   /\ UNCHANGED <<pc, idx, sel, first, last>>
    /\ UNCHANGED <<input, out, prev>>

Next == AnalyzeStart \/ AnalyzeQuery \/ AnalyzeEmit \/ GetStatusCall \/ GetStatusReturn

InitOf(S) ==
    /\ input \in S
    /\ blocks = input
    /\ stack = <<>>
    /\ pc = "new"
    /\ idx = 1
    /\ sel = <<>>
    /\ out = <<>>
    /\ first = [i \in DOMAIN input |-> NoValue]
    /\ last = [i \in DOMAIN input |-> NoValue]
    /\ prev = <<>>

\* Every session of NumBlocks blocks; word 0 is a word that is no address.
Init == InitOf(Sessions(NumBlocks, MaxWords, 0..NumBlocks))

Spec == Init /\ [][Next]_vars


\* ------------------------------------------------------------ the example

\* The session of the example at the end of the module (lines 134-141):
\* a root at 0x10000000 with words 0x20000000 and 0x40000000, and five
\* one-word blocks at 0x20000000 .. 0x60000000.
Scenario ==
    <<Block(268435456, <<536870912, 1073741824>>, STATUS_ROOT),
      Block(536870912, <<805306368>>, STATUS_UNKNOWN),
      Block(805306368, <<0>>, STATUS_UNKNOWN),
      Block(1073741824, <<0>>, STATUS_UNKNOWN),
      Block(1342177280, <<1610612736>>, STATUS_UNKNOWN),
      Block(1610612736, <<0>>, STATUS_UNKNOWN)>>

\* The orders in which a collector can deliver n blocks.
ListOrders(n) ==
    {p \in [1..n -> 1..n] : \A i, j \in 1..n : p[i] = p[j] => i = j}

\* The blocks of s appended (add_block) in the order p.
Reordered(s, p) == [i \in 1..Len(s) |-> s[p[i]]]

\* The example's blocks, appended in any order.
InitScenario ==
    InitOf({Reordered(Scenario, p) : p \in ListOrders(Len(Scenario))})

SpecScenario == InitScenario /\ [][Next]_vars

\* ------------------------------------------------------------ reordering

\* The status of the block at address a.
StatusAt(a) == blocks[CHOOSE i \in 1..N : blocks[i].addr = a].status

\* The orders of n blocks that exchange two neighbours.  Every order is
\* reached from every other by a series of such exchanges.
Exchanges(n) ==
    {[i \in 1..n |-> IF i = k THEN k + 1 ELSE IF i = k + 1 THEN k ELSE i] :
        k \in 1..(n - 1)}

\* analyze() has returned; the same block records are appended to a new
\* CoreLeak with two neighbours exchanged, and the statuses the finished
\* analysis left are kept for comparison.
NewSession ==
    /\ pc = "done"
    /\ prev = <<>>
    /\ \E p \in Exchanges(N) : input' = Reordered(input, p)
    /\ prev' = [a \in {blocks[i].addr : i \in 1..N} |-> StatusAt(a)]
    /\ blocks' = input'
    /\ pc' = "new"
    /\ idx' = 1
    /\ sel' = <<>>
    /\ out' = <<>>
    /\ first' = [i \in 1..N |-> NoValue]
    /\ last' = [i \in 1..N |-> NoValue]
    /\ UNCHANGED stack

NextOrders == Next \/ NewSession

\* Every session of NumBlocksOrders blocks whose words are addresses.
InitOrders ==
    InitOf(Sessions(NumBlocksOrders, MaxWordsOrders, 1..NumBlocksOrders))

SpecOrders == InitOrders /\ [][NextOrders]_vars


\* ------------------------------------------------------------ properties

\* The block was constructed with status Root.
IsRoot(b) == input[b].status = STATUS_ROOT

\* The blocks that reference block b (its references list, as a set).
Referencers(b) == Range(blocks[b].references)

RECURSIVE Closure(_)
\* S with every block that references a block of S, and so on.
Closure(S) ==
    LET T == S \cup UNION {Referencers(x) : x \in S}
    IN  IF T = S THEN S ELSE Closure(T)

\* The blocks from which b is reached along one or more reference edges.
Ancestors(b) == Closure(Referencers(b))

\* No block is reached from itself.
Acyclic == \A b \in 1..N : b \notin Ancestors(b)

\* analyze() has set the references (line 75 has run for every block).
EdgesBuilt == pc # "new"

\* A top-level get_status() of block b has returned.
Queried(b) == last[b] # NoValue

\* The comprehensions behind the lost and reachable lines of the report.
LeakComprehensions == {"l85", "l101", "l119", "l123", "l128", "l129"}

\* The comprehension of line 78 has passed block b.
PassedInUse(b) == pc = "l78" /\ stack = <<>> /\ idx > b

\* C1 (order-independence): once analyze() has finished on a session whose
\* blocks were analysed before in another list order, every block has the
\* status that the earlier analysis left it with.
C1_OrderIndependent ==
    (pc = "done" /\ prev # <<>>) =>
        \A i \in 1..N : blocks[i].status = prev[blocks[i].addr]

\* C2 (termination): resolution never recurses without end, that is,
\* get_status never runs into the recursion limit.
C2_Terminates == pc # "RecursionError"

\* C3 (status permanence): no step changes a status that is not Unknown.
C3_StatusPermanent ==
    [][\A b \in 1..N :
          blocks[b].status # STATUS_UNKNOWN =>
              blocks'[b].status = blocks[b].status]_vars

\* A non-root block holds a resolved status while a later comprehension is
\* querying the blocks again.
C3_Witness ==
    /\ pc = "l101"
    /\ \E b \in 1..N :
          /\ ~IsRoot(b)
          /\ Queried(b)
          /\ blocks[b].status \notin {STATUS_UNKNOWN, STATUS_DIRECTLY_LOST}

\* C4 (Unknown only from rootless cycles): in a session without cycles, no
\* get_status body finds the maximum over its referencers to be Unknown,
\* and no queried block that has a root or a block without referencers
\* among its ancestors is left Unknown.
C4_UnknownOnlyFromCycles ==
    (EdgesBuilt /\ Acyclic) =>
        /\ \A k \in 1..Len(stack) :
              stack[k].i > Len(blocks[stack[k].self].references) =>
                  stack[k].best # STATUS_UNKNOWN
        /\ \A b \in 1..N :
              (/\ ~IsRoot(b)
               /\ Queried(b)
               /\ \E a \in Ancestors(b) :
                     IsRoot(a) \/ blocks[a].references = <<>>)
              => blocks[b].status # STATUS_UNKNOWN

\* C5 (idempotence): every top-level get_status() of a block returns what
\* the first top-level get_status() of that block returned.
C5_Idempotent == \A b \in 1..N : last[b] = first[b]

\* A block whose first query returned Unknown has been queried again by
\* every later comprehension, the other blocks being queried in between.
C5_Witness ==
    /\ pc = "done"
    /\ \E b \in 1..N : ~IsRoot(b) /\ first[b] = STATUS_UNKNOWN

\* The line of the report with this label (the summary lines occur once).
ReportLine(label) ==
    LET k == CHOOSE j \in 1..Len(out) : out[j].label = label IN out[k]

\* C6 (end-to-end scenario): when analyze() has finished on the example
\* session, A and C are DirectlyReachable, B is IndirectlyReachable, D is
\* DirectlyLost and E is IndirectlyLost, and the report counts 5 blocks in
\* use, 1 definitely lost, 1 indirectly lost and 3 still reachable.
C6_Scenario ==
    pc = "done" =>
        /\ StatusAt(Scenario[2].addr) = STATUS_DIRECTLY_REACHABLE
        /\ StatusAt(Scenario[3].addr) = STATUS_INDIRECTLY_REACHABLE
        /\ StatusAt(Scenario[4].addr) = STATUS_DIRECTLY_REACHABLE
        /\ StatusAt(Scenario[5].addr) = STATUS_DIRECTLY_LOST
        /\ StatusAt(Scenario[6].addr) = STATUS_INDIRECTLY_LOST
        /\ ReportLine("in use at exit") = Line("in use at exit", 20, 5, 0)
        /\ ReportLine("definitely lost") = Line("definitely lost", 4, 1, 0)
        /\ ReportLine("indirectly lost") = Line("indirectly lost", 4, 1, 0)
        /\ ReportLine("still reachable") = Line("still reachable", 12, 3, 0)

\* analyze() has finished on the example session with E first in the list
\* and the root last.
C6_Witness ==
    /\ pc = "done"
    /\ Len(out) > 0
    /\ blocks[1].addr = Scenario[6].addr
    /\ blocks[N].addr = Scenario[1].addr

\* Every ancestor of b is a non-root block that lies on a cycle.
OnRootlessCycles(b) ==
    /\ ~IsRoot(b)
    /\ Referencers(b) # {}
    /\ \A a \in Ancestors(b) : ~IsRoot(a) /\ a \in Ancestors(a)

\* C7 (rootless cycles stay Unknown): a non-root block all of whose
\* ancestors lie on cycles without a root has status Unknown in every
\* state, every top-level query of it returns Unknown, and no comprehension
\* behind a lost or reachable line of the report selects it.
C7_RootlessCyclesStayUnknown ==
    EdgesBuilt =>
        \A b \in 1..N :
            OnRootlessCycles(b) =>
                /\ blocks[b].status = STATUS_UNKNOWN
                /\ last[b] \in {NoValue, STATUS_UNKNOWN}
                /\ pc \in LeakComprehensions => b \notin Range(sel)

\* analyze() has finished on a session in which two blocks that reference
\* each other are referenced by nothing else.
C7_Witness ==
    /\ pc = "done"
    /\ \E b \in 1..N :
          /\ OnRootlessCycles(b)
          /\ b \notin Referencers(b)
          /\ Cardinality(Ancestors(b)) = 2
          /\ last[b] = STATUS_UNKNOWN

\* The only block that references b is b itself.
SelfReferenceOnly(b) == ~IsRoot(b) /\ blocks[b].references = <<b>>

ReferencedOnlyByRoots(b) ==
    /\ ~IsRoot(b)
    /\ EdgesBuilt
    /\ Referencers(b) # {}
    /\ \A a \in Referencers(b) : IsRoot(a)

\* C9: a non-root block referenced only by Root blocks resolves to
\* DirectlyReachable: every top-level query of it returns DirectlyReachable
\* and leaves that as its status, and it never holds any other resolved
\* status.
C9_ReferencedByRoots ==
    \A b \in 1..N :
        ReferencedOnlyByRoots(b) =>
            /\ blocks[b].status \in {STATUS_UNKNOWN, STATUS_DIRECTLY_REACHABLE}
            /\ Queried(b) =>
                  /\ last[b] = STATUS_DIRECTLY_REACHABLE
                  /\ blocks[b].status = STATUS_DIRECTLY_REACHABLE

\* A block referenced only by roots that follow it in the list has been
\* queried by the first comprehension.
C9_Witness ==
    \E b \in 1..N :
        /\ ReferencedOnlyByRoots(b)
        /\ PassedInUse(b)
        /\ last[b] = STATUS_DIRECTLY_REACHABLE
        /\ \A a \in Referencers(b) : a > b

\* The references of b are empty once analyze() has set them.
Unreferenced(b) ==
    ~IsRoot(b) /\ EdgesBuilt /\ blocks[b].references = <<>>

\* C10: a non-root block that nothing references resolves to DirectlyLost:
\* every top-level query of it returns DirectlyLost and leaves that as its
\* status, and it never holds any other resolved status.
C10_Unreferenced ==
    \A b \in 1..N :
        Unreferenced(b) =>
            /\ blocks[b].status \in {STATUS_UNKNOWN, STATUS_DIRECTLY_LOST}
            /\ Queried(b) =>
                  /\ last[b] = STATUS_DIRECTLY_LOST
                  /\ blocks[b].status = STATUS_DIRECTLY_LOST

\* An unreferenced block with words of its own was resolved below an
\* earlier query of a block it references and has now been queried itself.
C10_Witness ==
    \E b \in 2..N :
        /\ Unreferenced(b)
        /\ PassedInUse(b)
        /\ last[b] = STATUS_DIRECTLY_LOST
        /\ \E c \in 1..(b - 1) : b \in Referencers(c)


\* The only referencer of x is the other block p, whose status is
\* DirectlyLost.
OnlyReferencedByLost(x, p) ==
    /\ ~IsRoot(x)
    /\ p # x
    /\ blocks[x].references = <<p>>
    /\ blocks[p].status = STATUS_DIRECTLY_LOST

\* C11: a non-root block whose only referencer is another block that has
\* resolved to DirectlyLost resolves to IndirectlyLost: once that referencer
\* is DirectlyLost, every top-level query of the block has returned
\* IndirectlyLost and left that as its status, and the block holds no other
\* resolved status, whichever of the two was queried first.
C11_ReferencedByLost ==
    \A x, p \in 1..N :
        OnlyReferencedByLost(x, p) =>
            /\ blocks[x].status \in {STATUS_UNKNOWN, STATUS_INDIRECTLY_LOST}
            /\ Queried(x) =>
                  /\ last[x] = STATUS_INDIRECTLY_LOST
                  /\ blocks[x].status = STATUS_INDIRECTLY_LOST

\* The block precedes its DirectlyLost referencer in the list, so that its
\* own query resolved the referencer, and both have been queried.
C11_Witness ==
    \E x, p \in 1..N :
        /\ OnlyReferencedByLost(x, p)
        /\ x < p
        /\ Queried(x)
        /\ Queried(p)
        /\ last[x] = STATUS_INDIRECTLY_LOST

\* The referencer precedes the block in the list and was queried first.
C11_WitnessReferencerFirst ==
    \E x, p \in 1..N :
        /\ OnlyReferencedByLost(x, p)
        /\ p < x
        /\ Queried(x)
        /\ last[x] = STATUS_INDIRECTLY_LOST


\* The blocks that were not constructed Root.
NonRoots == {b \in 1..N : ~IsRoot(b)}

RECURSIVE TotalSize(_)
\* The bytes of a set of blocks.
TotalSize(S) ==
    IF S = {} THEN 0
    ELSE LET b == CHOOSE x \in S : TRUE
         IN  blocks[b].size + TotalSize(S \ {b})

\* Bytes and blocks of the three lines of the leak summary, added up.
LeakBytes ==
    ReportLine("definitely lost").bytes + ReportLine("indirectly lost").bytes
    + ReportLine("still reachable").bytes

LeakBlocks ==
    ReportLine("definitely lost").blocks + ReportLine("indirectly lost").blocks
    + ReportLine("still reachable").blocks

\* Some block that was not constructed Root has status Unknown.
SomeUnknown == \E b \in NonRoots : blocks[b].status = STATUS_UNKNOWN

\* No comprehension selects a Root block, and the heap summary counts the
\* non-root blocks.
RootsUncounted ==
    /\ \A b \in Range(sel) : ~IsRoot(b)
    /\ pc = "done" =>
          /\ ReportLine("in use at exit").blocks = Cardinality(NonRoots)
          /\ ReportLine("in use at exit").bytes = TotalSize(NonRoots)

\* C12 (report accounting): Root blocks are counted in no aggregate, and
\* when analyze() has finished the bytes and the block counts of the three
\* leak summary lines add up to at most those of the heap summary, with
\* equality exactly when no non-root block has status Unknown.
C12_ReportAccounting ==
    /\ RootsUncounted
    /\ pc = "done" =>
          /\ LeakBytes <= ReportLine("in use at exit").bytes
          /\ LeakBlocks <= ReportLine("in use at exit").blocks
          /\ (LeakBytes = ReportLine("in use at exit").bytes) <=> ~SomeUnknown
          /\ (LeakBlocks = ReportLine("in use at exit").blocks) <=> ~SomeUnknown

\* The accounting that holds of every finished analysis: as C12, but the
\* bytes are only said to be equal when no non-root block is Unknown.
ReportAccountingOfBlocks ==
    /\ RootsUncounted
    /\ pc = "done" =>
          /\ LeakBytes <= ReportLine("in use at exit").bytes
          /\ LeakBlocks <= ReportLine("in use at exit").blocks
          /\ ~SomeUnknown => LeakBytes = ReportLine("in use at exit").bytes
          /\ (LeakBlocks = ReportLine("in use at exit").blocks) <=> ~SomeUnknown

\* A finished analysis left a block without bytes Unknown only where some
\* block was stepped down from IndirectlyLost: the Unknown block has a
\* chain of referencers up to an IndirectlyLost one.
UnknownWithoutBytesIsSteppedDown ==
    pc = "done" =>
        \A b \in NonRoots :
            (blocks[b].status = STATUS_UNKNOWN /\ blocks[b].size = 0) =>
                \E a \in Ancestors(b) :
                    blocks[a].status = STATUS_INDIRECTLY_LOST


\* The body of b.get_status is active on the call stack.
InProgress(b) == \E j \in 1..Len(stack) : stack[j].self = b

\* The generator of the innermost body is about to call get_status on s.
NextCallee(s) ==
    /\ stack # <<>>
    /\ LET f == stack[Len(stack)]
       IN  /\ f.i <= Len(blocks[f.self].references)
           /\ blocks[f.self].references[f.i] = s

\* C13 (cycle breaker): a get_status call on a block whose body is active
\* on the call stack returns at once, without scanning the block's
\* referencers again, whichever in-progress block it is.
C13_CycleBreaker ==
    \A s \in 1..N :
        (NextCallee(s) /\ InProgress(s)) =>
            ~ReachesScan(s, stack[Len(stack)].lookup)

\* The cycle breaker the code has: the re-entrant call returns at once on
\* the block the top-level query started from.
CycleBreakerOfLookup ==
    \A s \in 1..N :
        (NextCallee(s) /\ s = stack[Len(stack)].lookup) =>
            ~ReachesScan(s, stack[Len(stack)].lookup)


\* The statuses the referencers of b have now.
ReferencerStatuses(b) == {blocks[a].status : a \in Referencers(b)}

\* max() of a set of statuses that is not empty.
Highest(S) == CHOOSE m \in S : \A x \in S : x <= m

\* r -> a -> b -> c is a chain from a Root block in which each of a, b, c
\* has exactly one referencer, its predecessor.
RootChain(r, a, b, c) ==
    /\ IsRoot(r) /\ ~IsRoot(a) /\ ~IsRoot(b) /\ ~IsRoot(c)
    /\ blocks[a].references = <<r>>
    /\ blocks[b].references = <<a>>
    /\ blocks[c].references = <<b>>

\* Once queried, the blocks of a chain from a Root are DirectlyReachable,
\* IndirectlyReachable and DirectlyLost, in whichever order they are listed.
ChainResolves ==
    \A r, a, b, c \in 1..N : RootChain(r, a, b, c) =>
        /\ Queried(a) => blocks[a].status = STATUS_DIRECTLY_REACHABLE
        /\ Queried(b) => /\ blocks[a].status = STATUS_DIRECTLY_REACHABLE
                         /\ blocks[b].status = STATUS_INDIRECTLY_REACHABLE
        /\ Queried(c) => /\ blocks[b].status = STATUS_INDIRECTLY_REACHABLE
                         /\ blocks[c].status = STATUS_DIRECTLY_LOST

\* When analyze() has finished, a block that has referencers, not all
\* Unknown, is one ordinal below the highest of them.
OneBelowReferencers ==
    pc = "done" =>
        \A b \in NonRoots :
            (Referencers(b) # {} /\ Highest(ReferencerStatuses(b)) # STATUS_UNKNOWN)
                => blocks[b].status = Highest(ReferencerStatuses(b)) - 1

\* C14 (ordinal collapse): in a chain Root -> A -> B -> C in which each of
\* A, B, C has its predecessor as only referencer, A resolves to
\* DirectlyReachable, B to IndirectlyReachable and C to DirectlyLost; and
\* the status of a block is one ordinal below the maximum status of its
\* referencers when that maximum is not Unknown.
C14_OrdinalCollapse == ChainResolves /\ OneBelowReferencers

\* What line 49 does: a status that a body assigns is one ordinal below
\* the highest status its referencers have at that moment.
OneBelowWhenAssigned ==
    [][\A b \in 1..N :
          (input' = input /\ blocks'[b].status # blocks[b].status) =>
              blocks'[b].status =
                  IF Referencers(b) = {} THEN STATUS_DIRECTLY_LOST
                  ELSE Highest(ReferencerStatuses(b)) - 1]_vars

\* OneBelowReferencers holds of the sessions without a cycle.
OneBelowReferencersAcyclic == Acyclic => OneBelowReferencers


\* ------------------------------------------------------------ addresses

\* The sessions of n blocks, each at any address of A (add_block does not
\* look at the address, so two blocks can have the same), whose words are
\* drawn from A, at most w words per block.
SessionsAt(n, w, A) ==
    {[i \in 1..n |-> Block(a[i], d[i], r[i])] :
        a \in [1..n -> A],
        d \in [1..n -> IncreasingSeqs(A, w)],
        r \in [1..n -> {STATUS_UNKNOWN, STATUS_ROOT}]}

InitAddresses ==
    InitOf(SessionsAt(NumBlocksAddresses, MaxWordsAddresses,
                      1..NumBlocksAddresses))

SpecAddresses == InitAddresses /\ [][Next]_vars

\* b's address is one of a's words.
HasWord(a, b) == \E j \in 1..Len(blocks[a].data) : blocks[a].data[j] = blocks[b].addr

\* A get_status call has been made or a status differs from construction.
ResolutionBegun ==
    \/ stack # <<>>
    \/ \E b \in 1..N : Queried(b) \/ blocks[b].status # input[b].status

\* C15 (graph construction): once analyze() has built the edges, which it
\* does before any status is resolved, a block A is in B.references if and
\* only if B's address is one of A's words, for every pair of blocks (A = B,
\* Root blocks and blocks at the same address included); each referencer is
\* listed once, in list order, and addresses and words stay as constructed,
\* so no get_status call modifies any block's references.
C15_GraphConstruction ==
    /\ ResolutionBegun => EdgesBuilt
    /\ \A b \in 1..N : /\ blocks[b].addr = input[b].addr
                       /\ blocks[b].data = input[b].data
    /\ EdgesBuilt =>
          \A b \in 1..N :
              /\ \A a \in 1..N : a \in Referencers(b) <=> HasWord(a, b)
              /\ \A j, k \in 1..Len(blocks[b].references) :
                     j < k => blocks[b].references[j] < blocks[b].references[k]

\* analyze() has finished on a session with two blocks at one address, the
\* first a Root that holds that address: it references itself and the other.
C15_Witness ==
    /\ pc = "done"
    /\ \E a, b \in 1..N :
          /\ a # b /\ blocks[a].addr = blocks[b].addr
          /\ IsRoot(a) /\ HasWord(a, a)
          /\ a \in Referencers(a) /\ a \in Referencers(b)
          /\ Queried(b)


\* The six status ordinals, Unknown .. Root.
Statuses == STATUS_UNKNOWN..STATUS_ROOT

\* C16 (status range): in every state each block's status is one of the
\* six ordinals Unknown .. Root, and a block has status Root if and only
\* if it was constructed with status Root.
C16_StatusRange ==
    \A b \in 1..N :
        /\ blocks[b].status \in Statuses
        /\ blocks[b].status = STATUS_ROOT <=> IsRoot(b)

\* A finished analysis in which a block referenced by a Root block was
\* resolved: the highest status resolution assigns.
C16_Witness ==
    /\ pc = "done"
    /\ \E r, a \in 1..N :
          /\ IsRoot(r) /\ r \in Referencers(a)
          /\ ~IsRoot(a) /\ Queried(a)
          /\ blocks[a].status = STATUS_DIRECTLY_REACHABLE

\* A finished analysis in which a block that has referencers was queried
\* and left at the lowest status.
C16_WitnessLowest ==
    /\ pc = "done"
    /\ \E b \in 1..N :
          /\ ~IsRoot(b) /\ Queried(b) /\ Referencers(b) # {}
          /\ blocks[b].status = STATUS_UNKNOWN

====
